---- MODULE Spec2Model ----
(***************************************************************************)
(* Gree A/C infrared protocol (IRremoteESP8266, ir_Gree.cpp): the command  *)
(* record of IRGreeAC with its setters and checksum fixup, the encoder     *)
(* IRsend::sendGree and the decoder IRrecv::decodeGree.                    *)
(***************************************************************************)
EXTENDS Integers, Sequences, FiniteSets, TLC

VARIABLES remote_state, exposed, hist, op, pre, data, out, results, ret, args, pc, loop

vars == <<remote_state, exposed, hist, op, pre, data, out, results, ret, args, pc, loop>>

\* remote_state: the record of the IRGreeAC object.
\* exposed: what the last call handed out (getRaw's record, send's record).
\* out: the pulse train the last call emitted.
\* hist: whether setRaw installed the record since the last reset, the last
\*       power request, and the number of calls made.
\* op, pre: in a traced call (pc = "call"), the call made and the record before;
\*       for a received buffer, op is the disturbance in it.
\* data, results, ret, args: the encoder's input, the decoder's decode_results,
\*       its return value and the arguments of the calls made.
\* loop: the repeat loop of sendGree (r, repeat, transmissions sent).

(***************************************************************************)
(* Fixed-width integer arithmetic (uint8_t / uint16_t / uint32_t).         *)
(***************************************************************************)
Byte == 0..255

Pow2(n) == 2^n

Bit(x, k) == (x \div Pow2(k)) % 2

\* a & b on 8-bit operands, bit by bit
AndBits(a, b) ==
  LET f[k \in 0..8] == IF k = 8 THEN 0 ELSE Bit(a, k) * Bit(b, k) * Pow2(k) + f[k + 1]
  IN  f[0]

AndTable == [a \in Byte |-> [b \in Byte |-> AndBits(a, b)]]

And8(a, b) == AndTable[a][b]

\* a | b on 8-bit operands
Or8(a, b) == a + b - And8(a, b)

\* ~a truncated to uint8_t
Not8(a) == 255 - a

\* (a << n) truncated to uint8_t
Shl8(a, n) == (a * Pow2(n)) % 256

B2I(b) == IF b THEN 1 ELSE 0

Min(a, b) == IF a < b THEN a ELSE b

Max(a, b) == IF a > b THEN a ELSE b

(***************************************************************************)
(* Constants of ir_Gree.cpp.                                               *)
(***************************************************************************)
kGreeHdrMark == 9000
kGreeHdrSpace == 4500
kGreeBitMark == 620
kGreeOneSpace == 1600
kGreeZeroSpace == 540
kGreeMsgSpace == 19000
kGreeBlockFooter == 2
kGreeBlockFooterBits == 3

(***************************************************************************)
(* Constants of ir_Gree.h (record layout of section 3 of the design).      *)
(***************************************************************************)
kGreeStateLength == 8
kGreeBits == 64
kGreeAuto == 0
kGreeCool == 1
kGreeDry == 2
kGreeFan == 3
kGreeHeat == 4
kGreeModeMask == 7
kGreePower1Mask == 8
kGreeFanMask == 48
kGreeSwingAutoMask == 64
kGreeSleepMask == 128
kGreePower2Mask == 8
kGreeTurboMask == 16
kGreeLightMask == 32
kGreeXfanMask == 128
kGreeSwingPosMask == 15
kGreeMinTemp == 16
kGreeMaxTemp == 30
kGreeFanMax == 3
kGreeSwingLastPos == 0
kGreeSwingAuto == 1
kGreeSwingUp == 2
kGreeSwingMiddleUp == 3
kGreeSwingMiddle == 4
kGreeSwingMiddleDown == 5
kGreeSwingDown == 6
kGreeSwingDownAuto == 7
kGreeSwingMiddleAuto == 9
kGreeSwingUpAuto == 11

(***************************************************************************)
(* IRGreeAC: the command record.  Every operator takes the record s        *)
(* (remote_state, a function 0..7 -> Byte) and yields the record after the *)
(* call, or the value the getter returns.                                  *)
(***************************************************************************)
Record == [0..(kGreeStateLength - 1) -> Byte]

stateReset ==
  [i \in 0..(kGreeStateLength - 1) |->
     CASE i = 1 -> 9
       [] i = 2 -> 32
       [] i = 3 -> 80
       [] i = 5 -> 32
       [] i = 7 -> 80
       [] OTHER -> 0]

\* IRKelvinatorAC::calcBlockChecksum: 10 + the low nibbles of the first four
\* bytes + the high nibbles of the following bytes but the last, modulo 16.
calcBlockChecksum(block, length) ==
  LET f[i \in 0..length] ==
        IF i >= length - 1 THEN 0
        ELSE (IF i < 4 THEN block[i] % 16 ELSE block[i] \div 16) + f[i + 1]
  IN  (10 + f[0]) % 16

\* A checksum() that writes the whole last byte instead of its top nibble.
checksumWholeByte(s, length) ==
  [s EXCEPT ![length - 1] = Shl8(calcBlockChecksum(s, length), 4)]

checksum(s, length) ==
  LET sum == calcBlockChecksum(s, length)
  IN  [s EXCEPT ![length - 1] = Or8(Shl8(sum, 4), And8(s[length - 1], 15))]

fixup(s) == checksum(s, kGreeStateLength)

validChecksum(state, length) ==
  (state[length - 1] \div 16) = calcBlockChecksum(state, length)

setRaw(s, new_code) ==
  [i \in 0..(kGreeStateLength - 1) |-> new_code[i]]

on(s) ==
  [s EXCEPT ![0] = Or8(s[0], kGreePower1Mask),
            ![2] = Or8(s[2], kGreePower2Mask)]

\* An off() that clears the first power bit only.
offFirstBitOnly(s) ==
  [s EXCEPT ![0] = And8(s[0], Not8(kGreePower1Mask))]

off(s) ==
  [s EXCEPT ![0] = And8(s[0], Not8(kGreePower1Mask)),
            ![2] = And8(s[2], Not8(kGreePower2Mask))]

setPower(s, b) == IF b THEN on(s) ELSE off(s)

getPower(s) ==
  And8(s[0], kGreePower1Mask) # 0 /\ And8(s[2], kGreePower2Mask) # 0

getMode(s) == And8(s[0], kGreeModeMask)

getTemp(s) == And8(s[1], 15) + kGreeMinTemp

getFan(s) == And8(s[0], kGreeFanMask) \div 16

\* A setTemp() without the upper clamp.
setTempNoMax(s, temp) ==
  LET t1 == Max(kGreeMinTemp, temp)
      new_temp == IF getMode(s) = kGreeAuto THEN 25 ELSE t1
  IN  [s EXCEPT ![1] = Or8(And8(s[1], 240), (new_temp - kGreeMinTemp) % 16)]

setTemp(s, temp) ==
  LET t1 == Max(kGreeMinTemp, temp)
      t2 == Min(kGreeMaxTemp, t1)
      new_temp == IF getMode(s) = kGreeAuto THEN 25 ELSE t2
  IN  [s EXCEPT ![1] = Or8(And8(s[1], 240), new_temp - kGreeMinTemp)]

setFan(s, speed) ==
  LET f1 == Min(kGreeFanMax, speed)
      fan == IF getMode(s) = kGreeDry THEN 1 ELSE f1
  IN  [s EXCEPT ![0] = Or8(And8(s[0], Not8(kGreeFanMask)), Shl8(fan, 4))]

\* A setMode() whose Dry case does not call setFan(1).
setModeNoFan(s, new_mode) ==
  LET s1 == CASE new_mode = kGreeAuto -> setTemp(s, 25)
              [] OTHER -> s
      mode == IF new_mode \in {kGreeAuto, kGreeDry, kGreeCool, kGreeFan, kGreeHeat}
              THEN new_mode ELSE kGreeAuto
  IN  [s1 EXCEPT ![0] = Or8(And8(s1[0], Not8(kGreeModeMask)), mode)]

\* A setMode() without the default case: the low three bits of any value are stored.
setModeNoDefault(s, new_mode) ==
  LET s1 == CASE new_mode = kGreeAuto -> setTemp(s, 25)
              [] new_mode = kGreeDry -> setFan(s, 1)
              [] OTHER -> s
  IN  [s1 EXCEPT ![0] = Or8(And8(s1[0], Not8(kGreeModeMask)), new_mode % 8)]

setMode(s, new_mode) ==
  LET s1 == CASE new_mode = kGreeAuto -> setTemp(s, 25)
              [] new_mode = kGreeDry -> setFan(s, 1)
              [] OTHER -> s
      mode == IF new_mode \in {kGreeAuto, kGreeDry, kGreeCool, kGreeFan, kGreeHeat}
              THEN new_mode ELSE kGreeAuto
  IN  [s1 EXCEPT ![0] = Or8(And8(s1[0], Not8(kGreeModeMask)), mode)]

setLight(s, b) ==
  [s EXCEPT ![2] = Or8(And8(s[2], Not8(kGreeLightMask)), Shl8(B2I(b), 5))]

getLight(s) == And8(s[2], kGreeLightMask) # 0

setXFan(s, b) ==
  [s EXCEPT ![2] = Or8(And8(s[2], Not8(kGreeXfanMask)), Shl8(B2I(b), 7))]

getXFan(s) == And8(s[2], kGreeXfanMask) # 0

setSleep(s, b) ==
  [s EXCEPT ![0] = Or8(And8(s[0], Not8(kGreeSleepMask)), Shl8(B2I(b), 7))]

getSleep(s) == And8(s[0], kGreeSleepMask) # 0

\* A setTurbo() that writes the whole of byte 2.
setTurboWholeByte(s, b) ==
  [s EXCEPT ![2] = Shl8(B2I(b), 4)]

setTurbo(s, b) ==
  [s EXCEPT ![2] = Or8(And8(s[2], Not8(kGreeTurboMask)), Shl8(B2I(b), 4))]

getTurbo(s) == And8(s[2], kGreeTurboMask) # 0

\* A setSwingVertical() that stores the position code as given.
setSwingVerticalNoCheck(s, automatic, position) ==
  [s EXCEPT ![0] = Or8(And8(s[0], Not8(kGreeSwingAutoMask)), Shl8(B2I(automatic), 6)),
            ![4] = Or8(And8(s[4], Not8(kGreeSwingPosMask)), position % 16)]

setSwingVertical(s, automatic, position) ==
  LET new_position ==
        IF ~automatic
        THEN IF position \in {kGreeSwingUp, kGreeSwingMiddleUp, kGreeSwingMiddle,
                              kGreeSwingMiddleDown, kGreeSwingDown}
             THEN position ELSE kGreeSwingLastPos
        ELSE IF position \in {kGreeSwingAuto, kGreeSwingDownAuto,
                              kGreeSwingMiddleAuto, kGreeSwingUpAuto}
             THEN position ELSE kGreeSwingAuto
  IN  [s EXCEPT ![0] = Or8(And8(s[0], Not8(kGreeSwingAutoMask)), Shl8(B2I(automatic), 6)),
                ![4] = Or8(And8(s[4], Not8(kGreeSwingPosMask)), new_position)]

getSwingVerticalAuto(s) == And8(s[0], kGreeSwingAutoMask) # 0

getSwingVerticalPosition(s) == And8(s[4], kGreeSwingPosMask)

\* A getRaw() that hands the record out without fixup().
getRawNoFixup(s) == s

\* getRaw(): fixup(), then the record itself is handed out.
getRaw(s) == fixup(s)

(***************************************************************************)
(* IRsend: the pulse train.  An emitted train is the sequence of durations *)
(* in microseconds seen on the LED, a mark first and then alternating      *)
(* space, mark, ...: a mark right after a mark (or a space right after a   *)
(* space) prolongs it.                                                     *)
(***************************************************************************)
mark(o, usec) ==
  IF Len(o) % 2 = 1 THEN [o EXCEPT ![Len(o)] = @ + usec] ELSE Append(o, usec)

space(o, usec) ==
  IF Len(o) = 0 THEN o
  ELSE IF Len(o) % 2 = 0 THEN [o EXCEPT ![Len(o)] = @ + usec] ELSE Append(o, usec)

\* A train t of alternating mark, space, ... emitted after o.
join(o, t) ==
  IF t = <<>> THEN o
  ELSE IF Len(o) % 2 = 1 THEN [o EXCEPT ![Len(o)] = @ + t[1]] \o Tail(t)
  ELSE o \o t

\* IRsend::sendData: nbits bits of value, each a mark and a one- or zero-space.
sendData(o, onemark, onespace, zeromark, zerospace, value, nbits, MSBfirst) ==
  LET bitAt(k) == IF MSBfirst THEN Bit(value, nbits - 1 - k) ELSE Bit(value, k)
  IN  join(o, [i \in 1..(2 * nbits) |->
                 IF i % 2 = 1
                 THEN (IF bitAt((i - 1) \div 2) = 1 THEN onemark ELSE zeromark)
                 ELSE (IF bitAt((i - 1) \div 2) = 1 THEN onespace ELSE zerospace)])

\* IRsend::sendGeneric on an integer of nbits bits (repeat 0).
sendGenericBits(o, headermark, headerspace, onemark, onespace, zeromark, zerospace, footermark, gap, value, nbits, MSBfirst) ==
  LET o1 == IF headermark # 0 THEN mark(o, headermark) ELSE o
      o2 == IF headerspace # 0 THEN space(o1, headerspace) ELSE o1
      o3 == sendData(o2, onemark, onespace, zeromark, zerospace, value, nbits, MSBfirst)
      o4 == IF footermark # 0 THEN mark(o3, footermark) ELSE o3
  IN  space(o4, gap)

\* IRsend::sendGeneric on nbytes bytes of dataptr starting at index from (repeat 0).
sendGenericBytes(o, headermark, headerspace, onemark, onespace, zeromark, zerospace, footermark, gap, dataptr, from, nbytes, MSBfirst) ==
  LET o1 == IF headermark # 0 THEN mark(o, headermark) ELSE o
      o2 == IF headerspace # 0 THEN space(o1, headerspace) ELSE o1
      f[i \in 0..nbytes] ==
        IF i = 0 THEN o2
        ELSE sendData(f[i - 1], onemark, onespace, zeromark, zerospace,
                      dataptr[from + i - 1], 8, MSBfirst)
      o4 == IF footermark # 0 THEN mark(f[nbytes], footermark) ELSE f[nbytes]
  IN  space(o4, gap)

\* F applied to the value of v, v being evaluated once.
With(v, F(_)) == CHOOSE y \in {F(x) : x \in {v}} : TRUE

\* A pass that sends bytes 4..7 in block #1 and bytes 0..3 in block #2.
sendGreeBodySwapped(o, d, nbytes) ==
  With(sendGenericBytes(o, kGreeHdrMark, kGreeHdrSpace, kGreeBitMark, kGreeOneSpace,
                        kGreeBitMark, kGreeZeroSpace, 0, 0, d, 4, nbytes - 4, FALSE),
       LAMBDA block1 :
         With(sendGenericBits(block1, 0, 0, kGreeBitMark, kGreeOneSpace, kGreeBitMark,
                              kGreeZeroSpace, kGreeBitMark, kGreeMsgSpace, 2, 3, FALSE),
              LAMBDA footer1 :
                sendGenericBytes(footer1, 0, 0, kGreeBitMark, kGreeOneSpace,
                                 kGreeBitMark, kGreeZeroSpace, kGreeBitMark,
                                 kGreeMsgSpace, d, 0, 4, FALSE)))

\* One pass of the loop of sendGree(const unsigned char data[], nbytes, repeat).
sendGreeBody(o, d, nbytes) ==
  With(sendGenericBytes(o, kGreeHdrMark, kGreeHdrSpace, kGreeBitMark, kGreeOneSpace,
                        kGreeBitMark, kGreeZeroSpace, 0, 0, d, 0, 4, FALSE),
       LAMBDA block1 :
         With(sendGenericBits(block1, 0, 0, kGreeBitMark, kGreeOneSpace, kGreeBitMark,
                              kGreeZeroSpace, kGreeBitMark, kGreeMsgSpace, 2, 3, FALSE),
              LAMBDA footer1 :
                sendGenericBytes(footer1, 0, 0, kGreeBitMark, kGreeOneSpace,
                                 kGreeBitMark, kGreeZeroSpace, kGreeBitMark,
                                 kGreeMsgSpace, d, 4, nbytes - 4, FALSE)))

\* A sendGree() without the length test of lines 46-47.
sendGreeNoLengthTest(o, d, nbytes, repeat) ==
  LET f[r \in 0..(repeat + 1)] ==
        IF r = 0 THEN o
        ELSE With(f[r - 1], LAMBDA sent : sendGreeBody(sent, d, nbytes))
  IN  f[repeat + 1]

\* sendGree(const unsigned char data[], nbytes, repeat), for repeat < 65535:
\* the pulse train appended to o.
sendGree(o, d, nbytes, repeat) ==
  IF nbytes < kGreeStateLength THEN o
  ELSE LET f[r \in 0..(repeat + 1)] ==
             IF r = 0 THEN o
             ELSE With(f[r - 1], LAMBDA sent : sendGreeBody(sent, d, nbytes))
       IN  f[repeat + 1]

\* IRGreeAC::send: fixup(), then sendGree(remote_state, kGreeStateLength, repeat).
send(s, repeat) ==
  [state |-> fixup(s), sent |-> fixup(s),
   pulses |-> sendGree(<<>>, fixup(s), kGreeStateLength, repeat)]

(***************************************************************************)
(* IRrecv: the capture buffer and its tolerance-aware comparators.         *)
(* results.rawbuf holds rawlen entries in ticks of kRawTick microseconds;  *)
(* entry 0 is the gap before the message.  rawbuf[i] is results.rawbuf[i+1]*)
(* here; results.stale is what lies in the buffer behind the captured      *)
(* entries.                                                                *)
(***************************************************************************)
kHeader == 2
kFooter == 2
kStartOffset == 1
kTolerance == 25
kMarkExcess == 50
kRawTick == 2
kTimeoutMs == 15

Rd(res, i) == IF i < res.rawlen THEN res.rawbuf[i + 1] ELSE res.stale

ticksLow(usecs, tolerance) == (usecs * (100 - tolerance)) \div 100

ticksHigh(usecs, tolerance) == (usecs * (100 + tolerance)) \div 100 + 1

match(measured, desired, tolerance) ==
  /\ measured * kRawTick >= ticksLow(desired, tolerance)
  /\ measured * kRawTick <= ticksHigh(desired, tolerance)

matchMark(measured, desired, tolerance, excess) ==
  match(measured, desired + excess, tolerance)

matchSpace(measured, desired, tolerance, excess) ==
  match(measured, desired - excess, tolerance)

matchAtLeast(measured, desired, tolerance) ==
  \/ measured * kRawTick = 0
  \/ measured * kRawTick >= ticksLow(Min(desired, kTimeoutMs * 1000), tolerance)

(***************************************************************************)
(* A 64-bit value (match_result_t.data, the uint32_t data of decodeGree)   *)
(* is kept as its binary digits, bit k at index k + 1; the bits above the  *)
(* sequence are 0.                                                         *)
(***************************************************************************)
BitOf(d, k) == IF k < Len(d) THEN d[k + 1] ELSE 0

\* (d >> (8 * i)) & 0xFF
ByteOf(d, i) ==
  LET f[j \in 0..8] == IF j = 8 THEN 0 ELSE BitOf(d, 8 * i + j) * Pow2(j) + f[j + 1]
  IN  f[0]

\* d == v, for a value v below 2^8
EqualsByte(d, v) ==
  /\ ByteOf(d, 0) = v
  /\ \A k \in 8..(Len(d) - 1) : BitOf(d, k) = 0

\* reverseBits of IRutils: the low nbits bits of input in reverse order.
reverseBits(input, nbits) ==
  IF nbits <= 1 THEN input
  ELSE [k \in 1..Max(Len(input), nbits) |->
          IF k <= nbits THEN BitOf(input, nbits - k) ELSE BitOf(input, k - 1)]

\* IRrecv::matchData from rawbuf[start]: success, the value, the entries used
\* and the highest index read.  Bit k is looked for at rawbuf[start + 2k] and
\* the entry after it; matching stops at the first k (n below) that is neither
\* a one nor a zero.  The bits matched are shifted in from the right, and
\* reversed at the end when not MSBfirst.
matchData(res, start, nbits, onemark, onespace, zeromark, zerospace, tolerance, excess, MSBfirst) ==
  LET m(k) == Rd(res, start + 2 * k)
      s(k) == Rd(res, start + 2 * k + 1)
      isOne(k) == matchMark(m(k), onemark, tolerance, excess)
                    /\ matchSpace(s(k), onespace, tolerance, excess)
      isZero(k) == matchMark(m(k), zeromark, tolerance, excess)
                     /\ matchSpace(s(k), zerospace, tolerance, excess)
      bad == {k \in 0..(nbits - 1) : ~isOne(k) /\ ~isZero(k)}
      firstBad == IF bad = {} THEN nbits ELSE CHOOSE k \in bad : \A j \in bad : k <= j
      sawMark(k) == matchMark(m(k), onemark, tolerance, excess)
                      \/ matchMark(m(k), zeromark, tolerance, excess)
  IN  With(firstBad, LAMBDA n :
        With([k \in 1..n |-> IF isOne(n - k) THEN 1 ELSE 0], LAMBDA shifted :
          [success |-> n = nbits,
           data |-> IF MSBfirst THEN shifted ELSE reverseBits(shifted, n),
           used |-> 2 * n,
           hi |-> IF n = nbits THEN start + 2 * n - 1
                  ELSE IF sawMark(n) THEN start + 2 * n + 1 ELSE start + 2 * n]))

\* A byte store that takes the most significant byte of the block first.
storeBlockTopFirst(state, pos, value) ==
  [i \in DOMAIN state |->
     IF i >= pos /\ i < pos + 4 THEN ByteOf(value, 3 - (i - pos)) ELSE state[i]]

\* for (i = 0; i < 4; i++, data >>= 8) state[pos + i] = data & 0xFF
storeBlock(state, pos, value) ==
  [i \in DOMAIN state |->
     IF i >= pos /\ i < pos + 4 THEN ByteOf(value, i - pos) ELSE state[i]]

\* A failure path that clears decode_type and bits.
decodeFailReset(res, st, hi) ==
  [ok |-> FALSE, state |-> st, decode_type |-> "UNKNOWN", bits |-> 0, hi |-> hi]

\* What decodeGree leaves behind when it returns false / true: ok, the state
\* bytes written so far, decode_type and bits, and the highest rawbuf index
\* read (hi, -1 if none).
decodeFail(res, st, hi) ==
  [ok |-> FALSE, state |-> st, decode_type |-> res.decode_type, bits |-> res.bits,
   hi |-> hi]

\* The trailing part without the checksum test of line 574.
decodeFooterNoChecksum(res, strict, st, offset, state_pos) ==
  LET last == IF offset + 1 <= res.rawlen THEN offset + 1 ELSE offset
  IN  IF ~matchMark(Rd(res, offset), kGreeBitMark, kTolerance, kMarkExcess)
        THEN decodeFail(res, st, offset)
      ELSE IF offset + 1 <= res.rawlen
                /\ ~matchAtLeast(Rd(res, offset + 1), kGreeMsgSpace, kTolerance)
        THEN decodeFail(res, st, offset + 1)
      ELSE IF strict /\ state_pos # kGreeStateLength
        THEN decodeFail(res, st, last)
      ELSE [ok |-> TRUE, state |-> st, decode_type |-> "GREE", bits |-> state_pos * 8,
            hi |-> last]

\* decodeGree from the trailing mark on: the footer, the compliance checks
\* and the success path.  st holds the eight bytes stored, state_pos is 8.
decodeFooter(res, strict, st, offset, state_pos) ==
  LET last == IF offset + 1 <= res.rawlen THEN offset + 1 ELSE offset
  IN  IF ~matchMark(Rd(res, offset), kGreeBitMark, kTolerance, kMarkExcess)
        THEN decodeFail(res, st, offset)
      ELSE IF offset + 1 <= res.rawlen
                /\ ~matchAtLeast(Rd(res, offset + 1), kGreeMsgSpace, kTolerance)
        THEN decodeFail(res, st, offset + 1)
      ELSE IF strict /\ state_pos # kGreeStateLength
        THEN decodeFail(res, st, last)
      ELSE IF strict /\ ~validChecksum(st, kGreeStateLength)
        THEN decodeFail(res, st, last)
      ELSE [ok |-> TRUE, state |-> st, decode_type |-> "GREE", bits |-> state_pos * 8,
            hi |-> last]

\* The inter-block gap matched with matchAtLeast.
decodeBlock2AtLeast(res, strict, st, offset, state_pos) ==
  IF ~matchMark(Rd(res, offset), kGreeBitMark, kTolerance, kMarkExcess)
    THEN decodeFail(res, st, offset)
  ELSE IF ~matchAtLeast(Rd(res, offset + 1), kGreeMsgSpace, kTolerance)
    THEN decodeFail(res, st, offset + 1)
  ELSE With(matchData(res, offset + 2, 32, kGreeBitMark, kGreeOneSpace, kGreeBitMark,
                      kGreeZeroSpace, kTolerance, kMarkExcess, FALSE),
            LAMBDA b2 :
              IF ~b2.success THEN decodeFail(res, st, b2.hi)
              ELSE decodeFooter(res, strict, storeBlock(st, state_pos, b2.data),
                                offset + 2 + b2.used, state_pos + 4))

\* decodeGree from the inter-block gap on: the gap, data block #2 and the rest.
decodeBlock2(res, strict, st, offset, state_pos) ==
  IF ~matchMark(Rd(res, offset), kGreeBitMark, kTolerance, kMarkExcess)
    THEN decodeFail(res, st, offset)
  ELSE IF ~matchSpace(Rd(res, offset + 1), kGreeMsgSpace, kTolerance, kMarkExcess)
    THEN decodeFail(res, st, offset + 1)
  ELSE With(matchData(res, offset + 2, 32, kGreeBitMark, kGreeOneSpace, kGreeBitMark,
                      kGreeZeroSpace, kTolerance, kMarkExcess, FALSE),
            LAMBDA b2 :
              IF ~b2.success THEN decodeFail(res, st, b2.hi)
              ELSE decodeFooter(res, strict, storeBlock(st, state_pos, b2.data),
                                offset + 2 + b2.used, state_pos + 4))

\* The block #1 footer without the value test of line 543.
decodeBlockFooterAnyValue(res, strict, st, offset, state_pos) ==
  With(matchData(res, offset, kGreeBlockFooterBits, kGreeBitMark, kGreeOneSpace,
                 kGreeBitMark, kGreeZeroSpace, kTolerance, kMarkExcess, FALSE),
       LAMBDA ft :
         IF ~ft.success THEN decodeFail(res, st, ft.hi)
         ELSE decodeBlock2(res, strict, st, offset + ft.used, state_pos))

\* decodeGree from the block #1 footer on: the 3 footer bits and the rest.
decodeBlockFooter(res, strict, st, offset, state_pos) ==
  With(matchData(res, offset, kGreeBlockFooterBits, kGreeBitMark, kGreeOneSpace,
                 kGreeBitMark, kGreeZeroSpace, kTolerance, kMarkExcess, FALSE),
       LAMBDA ft :
         IF ~ft.success THEN decodeFail(res, st, ft.hi)
         ELSE IF ~EqualsByte(ft.data, kGreeBlockFooter) THEN decodeFail(res, st, ft.hi)
         ELSE decodeBlock2(res, strict, st, offset + ft.used, state_pos))

\* A decodeGree without the length test of lines 508-510.
decodeGreeNoLengthTest(res, nbits, strict) ==
  IF strict /\ nbits # kGreeBits
    THEN decodeFail(res, res.state, -1)
  ELSE IF ~matchMark(Rd(res, kStartOffset), kGreeHdrMark, kTolerance, kMarkExcess)
    THEN decodeFail(res, res.state, kStartOffset)
  ELSE IF ~matchSpace(Rd(res, kStartOffset + 1), kGreeHdrSpace, kTolerance, kMarkExcess)
    THEN decodeFail(res, res.state, kStartOffset + 1)
  ELSE With(matchData(res, kStartOffset + 2, 32, kGreeBitMark, kGreeOneSpace,
                      kGreeBitMark, kGreeZeroSpace, kTolerance, kMarkExcess, FALSE),
            LAMBDA b1 :
              IF ~b1.success THEN decodeFail(res, res.state, b1.hi)
              ELSE decodeBlockFooter(res, strict, storeBlock(res.state, 0, b1.data),
                                     kStartOffset + 2 + b1.used, 4))

\* IRrecv::decodeGree(results, nbits, strict).
decodeGree(res, nbits, strict) ==
  IF res.rawlen < 2 * (nbits + kGreeBlockFooterBits) + (kHeader + kFooter + 1)
    THEN decodeFail(res, res.state, -1)
  ELSE IF strict /\ nbits # kGreeBits
    THEN decodeFail(res, res.state, -1)
  ELSE IF ~matchMark(Rd(res, kStartOffset), kGreeHdrMark, kTolerance, kMarkExcess)
    THEN decodeFail(res, res.state, kStartOffset)
  ELSE IF ~matchSpace(Rd(res, kStartOffset + 1), kGreeHdrSpace, kTolerance, kMarkExcess)
    THEN decodeFail(res, res.state, kStartOffset + 1)
  ELSE With(matchData(res, kStartOffset + 2, 32, kGreeBitMark, kGreeOneSpace,
                      kGreeBitMark, kGreeZeroSpace, kTolerance, kMarkExcess, FALSE),
            LAMBDA b1 :
              IF ~b1.success THEN decodeFail(res, res.state, b1.hi)
              ELSE decodeBlockFooter(res, strict, storeBlock(res.state, 0, b1.data),
                                     kStartOffset + 2 + b1.used, 4))

\* The capture of an emitted train: the gap before it, then every duration in
\* ticks (capped at the 16 bits of an entry).
capture(o, gap, stale, state) ==
  [rawbuf |-> <<gap>> \o [i \in 1..Len(o) |-> Min(o[i] \div kRawTick, 65535)],
   rawlen |-> Len(o) + 1, stale |-> stale, state |-> state,
   decode_type |-> "UNKNOWN", bits |-> 0]

(***************************************************************************)
(* sendGree(const uint64_t data, nbits, repeat).  The 64-bit data is kept  *)
(* as its binary digits, as above.                                         *)
(***************************************************************************)
\* The 64-bit value whose most significant byte is b[0] and least b[7].
ValueOf(b) ==
  [k \in 1..kGreeBits |-> Bit(b[(kGreeStateLength - 1) - ((k - 1) \div 8)], (k - 1) % 8)]

\* (data >> shift) & 0xFF
ShiftByte(d, shift) ==
  LET f[j \in 0..8] == IF j = 8 THEN 0 ELSE BitOf(d, shift + j) * Pow2(j) + f[j + 1]
  IN  f[0]

\* The mid-message footer of lines 95-100, sent after the byte that ends at
\* bit i when i == nbits / 2.
sendGreeValueFooter(o, i, nbits) ==
  IF i = nbits \div 2
  THEN space(mark(sendData(o, kGreeBitMark, kGreeOneSpace, kGreeBitMark,
                           kGreeZeroSpace, 2, 3, TRUE),
                  kGreeBitMark),
             kGreeMsgSpace)
  ELSE o

\* A pass that takes the bytes of data from the least significant end.
sendGreeValueBodyLowFirst(o, value, nbits) ==
  LET f[k \in 0..(nbits \div 8)] ==
        IF k = 0 THEN space(mark(o, kGreeHdrMark), kGreeHdrSpace)
        ELSE With(f[k - 1], LAMBDA sent :
               sendGreeValueFooter(
                 sendData(sent, kGreeBitMark, kGreeOneSpace, kGreeBitMark,
                          kGreeZeroSpace, ShiftByte(value, 8 * (k - 1)), 8, FALSE),
                 8 * k, nbits))
  IN  space(mark(f[nbits \div 8], kGreeBitMark), kGreeMsgSpace)

\* One pass of the loop of sendGree(const uint64_t data, nbits, repeat):
\* header, then for i = 8, 16, ..., nbits the byte (data >> (nbits - i)) & 0xFF
\* and, at i == nbits / 2, the footer; then the final mark and space.
sendGreeValueBody(o, value, nbits) ==
  LET f[k \in 0..(nbits \div 8)] ==
        IF k = 0 THEN space(mark(o, kGreeHdrMark), kGreeHdrSpace)
        ELSE With(f[k - 1], LAMBDA sent :
               sendGreeValueFooter(
                 sendData(sent, kGreeBitMark, kGreeOneSpace, kGreeBitMark,
                          kGreeZeroSpace, ShiftByte(value, nbits - 8 * k), 8, FALSE),
                 8 * k, nbits))
  IN  space(mark(f[nbits \div 8], kGreeBitMark), kGreeMsgSpace)

\* sendGree(const uint64_t data, nbits, repeat), for repeat < 65535.
sendGreeValue(o, value, nbits, repeat) ==
  IF nbits # kGreeBits THEN o
  ELSE LET f[r \in 0..(repeat + 1)] ==
             IF r = 0 THEN o
             ELSE With(f[r - 1], LAMBDA sent : sendGreeValueBody(sent, value, nbits))
       IN  f[repeat + 1]

(***************************************************************************)
(* Inputs of the calls.                                                    *)
(***************************************************************************)
MaxRepeat == 1
MaxCalls == 4
MaxSent == 65537

TempIn == {5, 18, 40}
FanIn == {0, 2, 200}
ModeIn == {kGreeAuto, kGreeCool, kGreeDry, kGreeFan, kGreeHeat, 7}
PosIn == {kGreeSwingAuto, kGreeSwingUpAuto, kGreeSwingUp, 99}
RepeatIn == 0..MaxRepeat

\* Records a caller may install with setRaw: only one of the two power bits
\* set, Dry with fan 3, an unknown mode with every other bit set, eight
\* different bytes.
RawIn ==
  { [stateReset EXCEPT ![0] = 8],
    [stateReset EXCEPT ![0] = 50, ![2] = 40],
    [i \in 0..(kGreeStateLength - 1) |-> 255],
    [i \in 0..(kGreeStateLength - 1) |-> (37 * i + 11) % 256] }

None == [via |-> "none"]

NoOp == [name |-> "none"]

NoResults == [rawbuf |-> <<>>, rawlen |-> 0, stale |-> 0, state |-> stateReset,
              decode_type |-> "UNKNOWN", bits |-> 0]

NoArgs == [enc |-> "none", nbytes |-> 0, sbits |-> 0, repeat |-> 0, nbits |-> 0,
           strict |-> FALSE]

NoRet == [ok |-> FALSE, hi |-> -1]

NoLoop == [r |-> 0, repeat |-> 0, sent |-> 0]

\* In a traced call every byte value is tried; in a run, the inputs above.
Inputs(S) == IF pc = "call" THEN Byte ELSE S

(***************************************************************************)
(* The IRGreeAC object: one action per method.  A method called in a run   *)
(* (pc = "run") can be followed by any other; a traced call (pc = "call")  *)
(* records the call and the record before it, and returns.                 *)
(***************************************************************************)
AcStep(name, arg, new, exp, pulses, h) ==
  /\ pc \in {"run", "call"}
  /\ hist.calls < MaxCalls
  /\ remote_state' = new
  /\ exposed' = exp
  /\ out' = pulses
  /\ hist' = [h EXCEPT !.calls = @ + 1]
  /\ op' = IF pc = "call" THEN [name |-> name, arg |-> arg] ELSE op
  /\ pre' = IF pc = "call" THEN remote_state ELSE pre
  /\ pc' = IF pc = "call" THEN "returned" ELSE pc
  /\ UNCHANGED <<data, results, ret, args, loop>>

StateReset ==
  AcStep("stateReset", 0, stateReset, None, <<>>,
         [hist EXCEPT !.raw = FALSE, !.power = FALSE])

SetRaw ==
  \E c \in RawIn :
    AcStep("setRaw", c, setRaw(remote_state, c), None, <<>>, [hist EXCEPT !.raw = TRUE])

On ==
  AcStep("on", 0, on(remote_state), None, <<>>, [hist EXCEPT !.power = TRUE])

Off ==
  AcStep("off", 0, off(remote_state), None, <<>>, [hist EXCEPT !.power = FALSE])

SetPower ==
  \E b \in BOOLEAN :
    AcStep("setPower", b, setPower(remote_state, b), None, <<>>, [hist EXCEPT !.power = b])

SetTemp ==
  \E t \in Inputs(TempIn) :
    AcStep("setTemp", t, setTemp(remote_state, t), None, <<>>, hist)

SetFan ==
  \E f \in Inputs(FanIn) :
    AcStep("setFan", f, setFan(remote_state, f), None, <<>>, hist)

SetMode ==
  \E m \in Inputs(ModeIn) :
    AcStep("setMode", m, setMode(remote_state, m), None, <<>>, hist)

SetLight ==
  \E b \in BOOLEAN :
    AcStep("setLight", b, setLight(remote_state, b), None, <<>>, hist)

SetXFan ==
  \E b \in BOOLEAN :
    AcStep("setXFan", b, setXFan(remote_state, b), None, <<>>, hist)

SetSleep ==
  \E b \in BOOLEAN :
    AcStep("setSleep", b, setSleep(remote_state, b), None, <<>>, hist)

SetTurbo ==
  \E b \in BOOLEAN :
    AcStep("setTurbo", b, setTurbo(remote_state, b), None, <<>>, hist)

SetSwingVertical ==
  \E a \in BOOLEAN, p \in Inputs(PosIn) :
    AcStep("setSwingVertical", <<a, p>>, setSwingVertical(remote_state, a, p),
           None, <<>>, hist)

GetRaw ==
  AcStep("getRaw", 0, getRaw(remote_state),
         [via |-> "getRaw", rec |-> getRaw(remote_state)], <<>>, hist)

Send ==
  \E n \in RepeatIn :
    LET tx == send(remote_state, n)
    IN  AcStep("send", n, tx.state, [via |-> "send", rec |-> tx.sent], tx.pulses, hist)

\* The object after construction (the constructor calls stateReset).
InitRun ==
  /\ remote_state = stateReset
  /\ exposed = None
  /\ hist = [raw |-> FALSE, power |-> FALSE, calls |-> 0]
  /\ op = NoOp
  /\ pre = stateReset
  /\ data = stateReset
  /\ out = <<>>
  /\ results = NoResults
  /\ ret = NoRet
  /\ args = NoArgs
  /\ pc = "run"
  /\ loop = NoLoop

(***************************************************************************)
(* A traced call: one method called on a record the object can hold, the   *)
(* integer arguments ranging over every byte value.  The records are those *)
(* a few setters leave behind (Setup), and records installed with setRaw.  *)
(***************************************************************************)
Setup(p, t, f, m, x) ==
  LET a == setPower(stateReset, p)
      b == setFan(setTemp(setMode(a, kGreeCool), t), f)
      c == setMode(b, m)
  IN  IF x
      THEN setSwingVertical(
             setTurbo(setXFan(setSleep(setLight(c, FALSE), TRUE), TRUE), TRUE),
             TRUE, kGreeSwingUpAuto)
      ELSE c

SetterStates ==
  { Setup(p, t, f, m, x) : p \in BOOLEAN, t \in {18, 30}, f \in {0, 3},
                           m \in ModeIn, x \in BOOLEAN }

InitCall ==
  /\ remote_state \in SetterStates \cup RawIn
  /\ exposed = None
  /\ hist = [raw |-> remote_state \notin SetterStates,
             power |-> getPower(remote_state), calls |-> 0]
  /\ op = NoOp
  /\ pre = remote_state
  /\ data = stateReset
  /\ out = <<>>
  /\ results = NoResults
  /\ ret = NoRet
  /\ args = NoArgs
  /\ pc = "call"
  /\ loop = NoLoop

Init == InitRun \/ InitCall

Next ==
  \/ StateReset
  \/ SetRaw
  \/ On
  \/ Off
  \/ SetPower
  \/ SetTemp
  \/ SetFan
  \/ SetMode
  \/ SetLight
  \/ SetXFan
  \/ SetSleep
  \/ SetTurbo
  \/ SetSwingVertical
  \/ GetRaw
  \/ Send

Spec == Init /\ [][Next]_vars

(***************************************************************************)
(* The codec: sendGree on a record, the capture of the emitted train, and  *)
(* decodeGree on the capture.                                              *)
(***************************************************************************)
BytesIn == {1, 166}
NbytesIn == {7, kGreeStateLength}
NbitsIn == {32, kGreeBits, 72}
SendBitsIn == {56, kGreeBits}

\* Records with a fixed-up checksum nibble: every mix of two byte values that
\* are not their own mirror image, and the reset record.
FixedIn ==
  { fixup(r) : r \in [0..(kGreeStateLength - 1) -> BytesIn] \cup {stateReset} }

DataIn == FixedIn

InitCodec ==
  /\ remote_state = stateReset
  /\ exposed = None
  /\ hist = [raw |-> FALSE, power |-> FALSE, calls |-> 0]
  /\ op = NoOp
  /\ pre = stateReset
  /\ data \in DataIn
  /\ out = <<>>
  /\ results = NoResults
  /\ ret = NoRet
  /\ args = NoArgs
  /\ pc = "idle"
  /\ loop = NoLoop

\* A call that returns at once (wrong length) returns for every repeat.
SendRepeatIn(returns) == IF returns THEN RepeatIn \cup {65535} ELSE RepeatIn

SendGree ==
  /\ pc = "idle"
  /\ \E nbytes \in NbytesIn :
       \E repeat \in SendRepeatIn(nbytes < kGreeStateLength) :
         /\ out' = sendGree(<<>>, data, nbytes, repeat)
         /\ args' = [args EXCEPT !.enc = "bytes", !.nbytes = nbytes, !.repeat = repeat]
  /\ pc' = "sent"
  /\ UNCHANGED <<remote_state, exposed, hist, op, pre, data, results, ret, loop>>

SendGreeValue ==
  /\ pc = "idle"
  /\ \E nbits \in SendBitsIn :
       \E repeat \in SendRepeatIn(nbits # kGreeBits) :
         /\ out' = sendGreeValue(<<>>, ValueOf(data), nbits, repeat)
         /\ args' = [args EXCEPT !.enc = "value", !.sbits = nbits, !.repeat = repeat]
  /\ pc' = "sent"
  /\ UNCHANGED <<remote_state, exposed, hist, op, pre, data, results, ret, loop>>

Capture ==
  /\ pc = "sent"
  /\ results' = capture(out, 50000, 0, [i \in 0..(kGreeStateLength - 1) |-> 0])
  /\ pc' = "captured"
  /\ UNCHANGED <<remote_state, exposed, hist, op, pre, data, out, ret, args, loop>>

DecodeGree ==
  /\ pc = "captured"
  /\ \E nbits \in NbitsIn, strict \in BOOLEAN :
       \E d \in {decodeGree(results, nbits, strict)} :
           /\ results' = [results EXCEPT !.state = d.state,
                                         !.decode_type = d.decode_type,
                                         !.bits = d.bits]
           /\ ret' = [ok |-> d.ok, hi |-> d.hi]
           /\ args' = [args EXCEPT !.nbits = nbits, !.strict = strict]
  /\ pc' = "decoded"
  /\ UNCHANGED <<remote_state, exposed, hist, op, pre, data, out, loop>>

NextCodec ==
  \/ SendGree
  \/ SendGreeValue
  \/ Capture
  \/ DecodeGree

SpecCodec == InitCodec /\ [][NextCodec]_vars

(***************************************************************************)
(* The decoder on buffers as a receiver may hand them over: the capture of *)
(* one transmission of a record, as emitted or disturbed in one place, or  *)
(* cut short.  op holds the disturbance.  The entries behind a cut buffer  *)
(* (results.stale) and the decode_type and bits left in the results by an  *)
(* earlier decode are whatever they happen to be.                          *)
(***************************************************************************)
\* Records sent to the receiver: three with a fixed-up checksum, two with a
\* wrong checksum nibble.
RecvDataIn ==
  { fixup(stateReset),
    fixup([i \in 0..(kGreeStateLength - 1) |-> (37 * i + 11) % 256]),
    fixup(Setup(TRUE, 30, 3, kGreeHeat, TRUE)),
    [fixup(stateReset) EXCEPT ![kGreeStateLength - 1] = (@ + 16) % 256],
    [i \in 0..(kGreeStateLength - 1) |-> 255] }

CutIn == {75, 138, 139, 140}
StaleIn == {0, 310, 9500}
FooterIn == 0..7
GapIn == {14000, 14300, 19000, 23600, 30000, 60000}
TailIn == {11000, 12000, 30000, 60000}
PriorIn == {[decode_type |-> "UNKNOWN", bits |-> 0], [decode_type |-> "NEC", bits |-> 32]}

NoiseIn ==
  {[name |-> "none", arg |-> 0, stale |-> 0]}
  \cup {[name |-> "cut", arg |-> n, stale |-> s] : n \in CutIn, s \in StaleIn}
  \cup {[name |-> "footer", arg |-> v, stale |-> 0] : v \in FooterIn}
  \cup {[name |-> "gap", arg |-> g, stale |-> 0] : g \in GapIn}
  \cup {[name |-> "tail", arg |-> g, stale |-> 0] : g \in TailIn}
  \cup {[name |-> "header", arg |-> 4000, stale |-> 0]}
  \cup {[name |-> "bit", arg |-> 3000, stale |-> 0]}
  \cup {[name |-> "mark", arg |-> 2000, stale |-> 0]}

\* Places in one transmission (the first duration is 1): the header mark, the
\* three footer spaces, the inter-block gap, the first space of block #2, the
\* trailing mark and the trailing gap.
Disturb(o, n) ==
  [j \in 1..Len(o) |->
     CASE n.name = "footer" /\ j \in {68, 70, 72} ->
            IF Bit(n.arg, (j - 68) \div 2) = 1 THEN kGreeOneSpace ELSE kGreeZeroSpace
       [] n.name = "gap" /\ j = 74 -> n.arg
       [] n.name = "tail" /\ j = 140 -> n.arg
       [] n.name = "header" /\ j = 1 -> n.arg
       [] n.name = "bit" /\ j = 76 -> n.arg
       [] n.name = "mark" /\ j = 139 -> n.arg
       [] OTHER -> o[j]]

received(o, n, prior) ==
  LET c == capture(Disturb(o, n), 50000, n.stale, [i \in 0..(kGreeStateLength - 1) |-> 0])
      len == IF n.name = "cut" THEN n.arg ELSE c.rawlen
  IN  [c EXCEPT !.rawbuf = SubSeq(@, 1, len), !.rawlen = len,
                !.decode_type = prior.decode_type, !.bits = prior.bits]

InitDecode ==
  /\ remote_state = stateReset
  /\ exposed = None
  /\ hist = [raw |-> FALSE, power |-> FALSE, calls |-> 0]
  /\ op = NoOp
  /\ pre = stateReset
  /\ data \in RecvDataIn
  /\ out = <<>>
  /\ results = NoResults
  /\ ret = NoRet
  /\ args = NoArgs
  /\ pc = "listen"
  /\ loop = NoLoop

Receive ==
  /\ pc = "listen"
  /\ \E n \in NoiseIn, prior \in PriorIn :
       \E o \in {sendGree(<<>>, data, kGreeStateLength, 0)} :
         /\ out' = o
         /\ results' = received(o, n, prior)
         /\ op' = n
  /\ args' = [args EXCEPT !.enc = "bytes", !.nbytes = kGreeStateLength]
  /\ pc' = "captured"
  /\ UNCHANGED <<remote_state, exposed, hist, pre, data, ret, loop>>

NextDecode ==
  \/ Receive
  \/ DecodeGree

SpecDecode == InitDecode /\ [][NextDecode]_vars

(***************************************************************************)
(* The repeat loop of sendGree, for (uint16_t r = 0; r <= repeat; r++),    *)
(* pass by pass: each pass emits one transmission (sendGreeBody), counted  *)
(* in loop.sent, and increments the 16-bit r.                              *)
(***************************************************************************)
LoopRepeatIn == {0, 1, 2, 65535}

InitLoop ==
  /\ remote_state = stateReset
  /\ exposed = None
  /\ hist = [raw |-> FALSE, power |-> FALSE, calls |-> 0]
  /\ op = NoOp
  /\ pre = stateReset
  /\ data = stateReset
  /\ out = <<>>
  /\ results = NoResults
  /\ ret = NoRet
  /\ args \in {[NoArgs EXCEPT !.nbytes = kGreeStateLength, !.repeat = n] : n \in LoopRepeatIn}
  /\ pc = "enter"
  /\ loop = [NoLoop EXCEPT !.repeat = args.repeat]

LoopEnter ==
  /\ pc = "enter"
  /\ pc' = IF args.nbytes < kGreeStateLength THEN "done" ELSE "loop"
  /\ loop' = [loop EXCEPT !.r = 0]
  /\ UNCHANGED <<remote_state, exposed, hist, op, pre, data, out, results, ret, args>>

LoopPass ==
  /\ pc = "loop"
  /\ loop.r <= loop.repeat
  /\ loop.sent < MaxSent
  /\ loop' = [loop EXCEPT !.r = (@ + 1) % 65536, !.sent = @ + 1]
  /\ UNCHANGED <<remote_state, exposed, hist, op, pre, data, out, results, ret, args, pc>>

LoopExit ==
  /\ pc = "loop"
  /\ ~(loop.r <= loop.repeat)
  /\ pc' = "done"
  /\ UNCHANGED <<remote_state, exposed, hist, op, pre, data, out, results, ret, args, loop>>

NextLoop ==
  \/ LoopEnter
  \/ LoopPass
  \/ LoopExit

SpecLoop == InitLoop /\ [][NextLoop]_vars

(***************************************************************************)
(* Properties.                                                             *)
(***************************************************************************)
KnownModes == {kGreeAuto, kGreeCool, kGreeDry, kGreeFan, kGreeHeat}

Power1(s) == And8(s[0], kGreePower1Mask) # 0

Power2(s) == And8(s[2], kGreePower2Mask) # 0

\* C1 (SpecCodec): a record with a valid checksum, sent once by sendGree
\* (8 bytes, repeat 0), captured as emitted and decoded by decodeGree with
\* nbits 64 and strict on, is decoded successfully and the eight state
\* bytes delivered are the eight bytes sent.
C1_RoundTrip ==
  (/\ pc = "decoded"
   /\ args.nbytes = kGreeStateLength
   /\ args.repeat = 0
   /\ args.nbits = kGreeBits
   /\ args.strict
   /\ validChecksum(data, kGreeStateLength))
  => /\ ret.ok
     /\ \A i \in 0..(kGreeStateLength - 1) : results.state[i] = data[i]

C1_Witness ==
  /\ pc = "decoded"
  /\ args.nbytes = kGreeStateLength
  /\ args.repeat = 0
  /\ args.nbits = kGreeBits
  /\ args.strict
  /\ ret.ok
  /\ results.state = data
  /\ data[0] = 166
  /\ data[1] = 1
  /\ data[4] = 166

\* C2 (Spec): after any sequence of stateReset, setRaw and setters, the
\* record getRaw() hands out and the record send() passes to sendGree have a
\* valid checksum nibble.
C2_ExposedChecksum ==
  exposed.via # "none" => validChecksum(exposed.rec, kGreeStateLength)

C2_Witness ==
  /\ pc = "run"
  /\ hist.raw
  /\ exposed.via = "getRaw"
  /\ exposed.rec[0] = 255
  /\ exposed.rec[kGreeStateLength - 1] = 63

\* C3 (Spec): fixup, run by getRaw() and send() on any record, leaves bytes
\* 0..6 and the low nibble of byte 7 as they were, and validChecksum() is
\* true of the record afterwards.
C3_FixupTopNibble ==
  (pc = "returned" /\ op.name \in {"getRaw", "send"})
  => /\ \A i \in 0..(kGreeStateLength - 2) : remote_state[i] = pre[i]
     /\ remote_state[kGreeStateLength - 1] % 16 = pre[kGreeStateLength - 1] % 16
     /\ validChecksum(remote_state, kGreeStateLength)

C3_Witness ==
  /\ pc = "returned"
  /\ op.name = "getRaw"
  /\ pre[kGreeStateLength - 1] % 16 # 0
  /\ ~validChecksum(pre, kGreeStateLength)
  /\ remote_state[kGreeStateLength - 1] # pre[kGreeStateLength - 1]

\* C4 (Spec): for every t in 0..255, after setTemp(t) getTemp() is 25 if the
\* mode was Auto, and otherwise t clamped to 16..30.
C4_SetTempClamp ==
  (pc = "returned" /\ op.name = "setTemp")
  => getTemp(remote_state) =
       IF getMode(pre) = kGreeAuto THEN 25
       ELSE IF op.arg < 16 THEN 16
       ELSE IF op.arg > 30 THEN 30
       ELSE op.arg

C4_Witness ==
  /\ pc = "returned"
  /\ op.name = "setTemp"
  /\ op.arg = 200
  /\ getMode(pre) = kGreeCool
  /\ getTemp(pre) = 18
  /\ getTemp(remote_state) = 30

\* C5 (Spec): as long as no record was installed with setRaw, a stored mode
\* Dry goes with a stored fan speed 1; setMode(Dry) leaves fan 1 whatever the
\* fan was; setFan(s) in Dry leaves fan 1; setFan(s) outside Dry stores
\* min(s, 3).
C5_FanLock ==
  /\ (~hist.raw /\ getMode(remote_state) = kGreeDry) => getFan(remote_state) = 1
  /\ (pc = "returned" /\ op.name = "setMode" /\ op.arg = kGreeDry)
       => getFan(remote_state) = 1
  /\ (pc = "returned" /\ op.name = "setFan")
       => getFan(remote_state) =
            IF getMode(pre) = kGreeDry THEN 1
            ELSE IF op.arg < 3 THEN op.arg ELSE 3

C5_Witness ==
  /\ pc = "returned"
  /\ ~hist.raw
  /\ op.name = "setMode"
  /\ op.arg = kGreeDry
  /\ getFan(pre) = 3
  /\ getMode(remote_state) = kGreeDry
  /\ getFan(remote_state) = 1

\* C6 (Spec): as long as no record was installed with setRaw, the two power
\* bits are equal and getPower() is what the last of on(), off(), setPower()
\* asked for (off after stateReset); and a record with only one of the two
\* bits set has getPower() false.
C6_PowerCoherence ==
  /\ ~hist.raw => /\ Power1(remote_state) = Power2(remote_state)
                  /\ getPower(remote_state) = hist.power
  /\ (Power1(remote_state) # Power2(remote_state)) => ~getPower(remote_state)

C6_Witness ==
  /\ pc = "run"
  /\ ~hist.raw
  /\ hist.calls = MaxCalls
  /\ ~hist.power
  /\ getMode(remote_state) = kGreeDry
  /\ getTemp(remote_state) = 30
  /\ ~Power1(remote_state)
  /\ ~Power2(remote_state)

\* C7 (Spec): for every p in 0..255, setSwingVertical(a, p) stores the auto
\* flag a; with a false it stores p if p is one of the five manual codes and
\* otherwise LastPos, with a true it stores p if p is one of the four auto
\* codes and otherwise Auto.
C7_SwingValidation ==
  (pc = "returned" /\ op.name = "setSwingVertical")
  => /\ getSwingVerticalAuto(remote_state) = op.arg[1]
     /\ getSwingVerticalPosition(remote_state) =
          IF op.arg[1]
          THEN (IF op.arg[2] \in {1, 7, 9, 11} THEN op.arg[2] ELSE kGreeSwingAuto)
          ELSE (IF op.arg[2] \in {2, 3, 4, 5, 6} THEN op.arg[2] ELSE kGreeSwingLastPos)

C7_Witness ==
  /\ pc = "returned"
  /\ op.name = "setSwingVertical"
  /\ op.arg = <<FALSE, 11>>
  /\ getSwingVerticalAuto(pre)
  /\ getSwingVerticalPosition(pre) = kGreeSwingUpAuto
  /\ ~getSwingVerticalAuto(remote_state)
  /\ getSwingVerticalPosition(remote_state) = kGreeSwingLastPos

\* C8 (Spec): setMode(m) stores m if m is one of the five known modes and
\* Auto otherwise; as long as no record was installed with setRaw the stored
\* mode is one of the five known modes.
C8_ModeFallback ==
  /\ (pc = "returned" /\ op.name = "setMode")
       => getMode(remote_state) = IF op.arg \in KnownModes THEN op.arg ELSE kGreeAuto
  /\ ~hist.raw => getMode(remote_state) \in KnownModes

C8_Witness ==
  /\ pc = "returned"
  /\ ~hist.raw
  /\ op.name = "setMode"
  /\ op.arg = 6
  /\ getMode(pre) = kGreeHeat
  /\ getMode(remote_state) = kGreeAuto

\* The duration at place j (1..140) of one transmission of the record d.
FrameAt(d, j) ==
  LET bitSpace(b) == IF b = 1 THEN kGreeOneSpace ELSE kGreeZeroSpace
      dataBit(k) == Bit(d[k \div 8], k % 8)
  IN  CASE j = 1 -> kGreeHdrMark
        [] j = 2 -> kGreeHdrSpace
        [] j \in 3..66 ->
             IF j % 2 = 1 THEN kGreeBitMark ELSE bitSpace(dataBit((j - 3) \div 2))
        [] j \in 67..72 ->
             IF j % 2 = 1 THEN kGreeBitMark ELSE bitSpace(<<0, 1, 0>>[((j - 67) \div 2) + 1])
        [] j = 73 -> kGreeBitMark
        [] j = 74 -> kGreeMsgSpace
        [] j \in 75..138 ->
             IF j % 2 = 1 THEN kGreeBitMark ELSE bitSpace(dataBit(32 + ((j - 75) \div 2)))
        [] j = 139 -> kGreeBitMark
        [] j = 140 -> kGreeMsgSpace

\* C9 (SpecCodec): every transmission sendGree emits is, in this order, the
\* header mark and space, the 32 bits of bytes 0..3 least significant bit
\* first, the three footer bits 0, 1, 0, a bit mark and the message gap, the
\* 32 bits of bytes 4..7, a bit mark and the message gap; with nothing else
\* in between, repeat + 1 times.
C9_FrameOrder ==
  (pc # "idle" /\ args.nbytes = kGreeStateLength)
  => /\ Len(out) = 140 * (args.repeat + 1)
     /\ \A j \in 1..Len(out) : out[j] = FrameAt(data, ((j - 1) % 140) + 1)

C9_Witness ==
  /\ pc = "sent"
  /\ args.nbytes = kGreeStateLength
  /\ args.repeat = 1
  /\ Len(out) = 280
  /\ data[0] = 166
  /\ data[4] = 1
  /\ out[4] = kGreeZeroSpace
  /\ out[6] = kGreeOneSpace
  /\ out[70] = kGreeOneSpace
  /\ out[76] = kGreeOneSpace
  /\ out[141] = kGreeHdrMark

\* C10 (SpecLoop): for every repeat in 0..65535 the loop of sendGree emits
\* exactly repeat + 1 transmissions and then ends: no more than repeat + 1
\* transmissions are ever sent.
C10_RepeatPlusOne ==
  /\ loop.sent <= loop.repeat + 1
  /\ pc = "done" => loop.sent = loop.repeat + 1

\* C11 (SpecCodec): sendGree(data, nbytes, repeat) with nbytes below 8 emits
\* no mark and no space, whatever repeat is; sendGree(uint64 data, nbits,
\* repeat) with nbits other than 64 emits nothing either.
C11_ShortLengthNoOp ==
  /\ (pc # "idle" /\ args.enc = "bytes" /\ args.nbytes < kGreeStateLength)
       => out = <<>>
  /\ (pc # "idle" /\ args.enc = "value" /\ args.sbits # kGreeBits)
       => out = <<>>

C11_Witness ==
  /\ pc = "sent"
  /\ args.enc = "bytes"
  /\ args.nbytes = 7
  /\ args.repeat = 65535
  /\ data[0] = 166
  /\ out = <<>>

\* C20 (SpecCodec): for a record b0..b7 and a repeat count, sendGree on the
\* 64-bit value with b0 as its most significant byte and sendGree on the
\* byte array b0..b7 emit the same sequence of mark and space durations.
C20_EncodersAgree ==
  /\ (pc = "sent" /\ args.enc = "value" /\ args.sbits = kGreeBits)
       => out = sendGree(<<>>, data, kGreeStateLength, args.repeat)
  /\ (pc = "sent" /\ args.enc = "bytes" /\ args.nbytes = kGreeStateLength)
       => out = sendGreeValue(<<>>, ValueOf(data), kGreeBits, args.repeat)

C20_Witness ==
  /\ pc = "sent"
  /\ args.enc = "value"
  /\ args.sbits = kGreeBits
  /\ args.repeat = 1
  /\ Len(out) = 280
  /\ data[0] = 166
  /\ data[3] = 1
  /\ out[4] = kGreeZeroSpace
  /\ out[6] = kGreeOneSpace
  /\ out[52] = kGreeOneSpace
  /\ out[70] = kGreeOneSpace
  /\ out[74] = kGreeMsgSpace

\* C12 (SpecDecode): a buffer with fewer than 2 * (nbits + 3) + header +
\* footer + 1 entries is rejected by decodeGree whatever it holds, strict or
\* not, and before any entry of it is matched.
C12_ShortInput ==
  (pc = "decoded" /\ results.rawlen < 2 * (args.nbits + 3) + (kHeader + kFooter + 1))
  => /\ ~ret.ok
     /\ ret.hi = -1

C12_Witness ==
  /\ pc = "decoded"
  /\ op.name = "cut"
  /\ results.rawlen = 138
  /\ args.nbits = kGreeBits
  /\ ~args.strict
  /\ validChecksum(data, kGreeStateLength)
  /\ ~ret.ok
  /\ ret.hi = -1

\* C13 (SpecDecode): a buffer that is well formed but for the three bits
\* between the two blocks, which carry a value other than 0b010, is rejected
\* by decodeGree, strict or not.
C13_WrongFooter ==
  (pc = "decoded" /\ op.name = "footer" /\ op.arg # kGreeBlockFooter) => ~ret.ok

C13_Witness ==
  /\ pc = "decoded"
  /\ op.name = "footer"
  /\ op.arg = 3
  /\ args.nbits = kGreeBits
  /\ ~args.strict
  /\ validChecksum(data, kGreeStateLength)
  /\ ~ret.ok
  /\ ret.hi = 72

\* C14 (SpecDecode): a well-framed buffer carrying a record with a wrong
\* checksum nibble is decoded with nbits 64 when strict is off (the 8 bytes
\* and 64 bits are reported) and rejected when strict is on; with strict on
\* and nbits other than 64 every buffer is rejected.
C14_StrictLenient ==
  /\ (pc = "decoded" /\ op.name = "none" /\ args.nbits = kGreeBits
        /\ ~validChecksum(data, kGreeStateLength))
       => /\ ret.ok = ~args.strict
          /\ ~args.strict => /\ \A i \in 0..(kGreeStateLength - 1) :
                                  results.state[i] = data[i]
                             /\ results.bits = kGreeBits
                             /\ results.decode_type = "GREE"
  /\ (pc = "decoded" /\ args.strict /\ args.nbits # kGreeBits) => ~ret.ok

C14_Witness ==
  /\ pc = "decoded"
  /\ op.name = "none"
  /\ args.nbits = kGreeBits
  /\ ~args.strict
  /\ ~validChecksum(data, kGreeStateLength)
  /\ data[0] = 255
  /\ ret.ok
  /\ results.state = data
  /\ results.bits = kGreeBits

\* C15 (SpecDecode): in a buffer that is otherwise as emitted, a space after
\* the footer's trailing mark of at least the message space (19000 us),
\* however long, is accepted by decodeGree, as the trailing gap after block
\* #2 is.
C15_GapAtLeast ==
  (/\ pc = "decoded"
   /\ op.name \in {"gap", "tail"}
   /\ op.arg >= kGreeMsgSpace
   /\ args.nbits = kGreeBits
   /\ validChecksum(data, kGreeStateLength))
  => ret.ok

\* C15, as the decoder does it (SpecDecode): the space after the footer's
\* trailing mark is matched like any space of the message, within the
\* tolerance of 25 % around 19000 us less the mark excess (14212 to 23688 us
\* as measured); only the trailing gap after block #2 is a minimum (11250 us).
C15_GapWithinTolerance ==
  /\ (pc = "decoded" /\ op.name = "gap" /\ args.nbits = kGreeBits
        /\ validChecksum(data, kGreeStateLength))
       => ret.ok = (2 * (op.arg \div 2) >= 14212 /\ 2 * (op.arg \div 2) <= 23688)
  /\ (pc = "decoded" /\ op.name = "tail" /\ args.nbits = kGreeBits
        /\ validChecksum(data, kGreeStateLength))
       => ret.ok = (2 * (op.arg \div 2) >= 11250)

C15_Witness ==
  /\ pc = "decoded"
  /\ op.name = "gap"
  /\ op.arg = 30000
  /\ args.nbits = kGreeBits
  /\ args.strict
  /\ validChecksum(data, kGreeStateLength)
  /\ ~ret.ok
  /\ ret.hi = 74

\* C16 (SpecDecode): a decodeGree that returns false leaves decode_type and
\* bits of the results as they were, at whichever step it fails (only state
\* bytes may have been written); one that returns true sets decode_type and
\* sets bits to 64.  The captured entries are never written.
C16_FailureFrame ==
  [][(pc = "captured" /\ pc' = "decoded")
       => /\ results'.rawbuf = results.rawbuf
          /\ results'.rawlen = results.rawlen
          /\ IF ret'.ok
             THEN results'.decode_type = "GREE" /\ results'.bits = 64
             ELSE /\ results'.decode_type = results.decode_type
                  /\ results'.bits = results.bits]_vars

C16_Witness ==
  /\ pc = "decoded"
  /\ op.name = "bit"
  /\ ~ret.ok
  /\ results.decode_type = "NEC"
  /\ results.bits = 32
  /\ data[0] = 255
  /\ results.state[0] = 255
  /\ results.state[3] = 255
  /\ results.state[4] = 0

\* C18 (SpecDecode): on a buffer that passes the length test, every entry
\* decodeGree reads has an index below rawlen.
C18_ReadsWithinBuffer ==
  (pc = "decoded" /\ results.rawlen >= 2 * (args.nbits + 3) + (kHeader + kFooter + 1))
  => ret.hi < results.rawlen

\* C17 (Spec): after any sequence of setters from the reset state, setMode
\* with any byte included, a stored mode Auto goes with a stored temperature
\* of 25.
C17_TempLock ==
  (pc = "run" /\ ~hist.raw /\ getMode(remote_state) = kGreeAuto)
  => getTemp(remote_state) = 25

\* The bits of byte i that the call c may change: those of its own field and,
\* for setMode(Auto) and setMode(Dry), those of the temperature and of the fan.
FieldMask(c, i) ==
  CASE c.name \in {"on", "off", "setPower"} ->
         (IF i = 0 THEN kGreePower1Mask ELSE IF i = 2 THEN kGreePower2Mask ELSE 0)
    [] c.name = "setTemp" -> (IF i = 1 THEN 15 ELSE 0)
    [] c.name = "setFan" -> (IF i = 0 THEN kGreeFanMask ELSE 0)
    [] c.name = "setMode" ->
         (IF i = 0 THEN (IF c.arg = kGreeDry THEN kGreeModeMask + kGreeFanMask
                         ELSE kGreeModeMask)
          ELSE IF i = 1 /\ c.arg = kGreeAuto THEN 15
          ELSE 0)
    [] c.name = "setLight" -> (IF i = 2 THEN kGreeLightMask ELSE 0)
    [] c.name = "setXFan" -> (IF i = 2 THEN kGreeXfanMask ELSE 0)
    [] c.name = "setSleep" -> (IF i = 0 THEN kGreeSleepMask ELSE 0)
    [] c.name = "setTurbo" -> (IF i = 2 THEN kGreeTurboMask ELSE 0)
    [] c.name = "setSwingVertical" ->
         (IF i = 0 THEN kGreeSwingAutoMask ELSE IF i = 4 THEN kGreeSwingPosMask ELSE 0)

FieldSetters ==
  {"on", "off", "setPower", "setTemp", "setFan", "setMode", "setLight", "setXFan",
   "setSleep", "setTurbo", "setSwingVertical"}

\* C19 (Spec): a field setter changes only the bits of its own field, and
\* setMode(Auto) the temperature, setMode(Dry) the fan besides; byte 7 is
\* changed by no setter.
C19_SetterFrame ==
  (pc = "returned" /\ op.name \in FieldSetters)
  => /\ \A i \in 0..(kGreeStateLength - 1) :
          And8(remote_state[i], Not8(FieldMask(op, i)))
            = And8(pre[i], Not8(FieldMask(op, i)))
     /\ remote_state[kGreeStateLength - 1] = pre[kGreeStateLength - 1]

C19_Witness ==
  /\ pc = "returned"
  /\ op.name = "setTurbo"
  /\ op.arg = FALSE
  /\ getTurbo(pre)
  /\ getXFan(pre)
  /\ ~getLight(pre)
  /\ getMode(pre) = kGreeHeat
  /\ ~getTurbo(remote_state)
  /\ getXFan(remote_state)
  /\ remote_state[2] = pre[2] - kGreeTurboMask

====
